---- MODULE Spec2Model ----
(***************************************************************************)
(* Model of the Map combinator of water-rs/reactive (src/map.rs) over a    *)
(* single leaf Binding.  A Map is a pass-through adapter: compute() applies *)
(* the transform to source.compute(), add_watcher() installs a forwarding  *)
(* closure on the source.  The Binding (leaf cell with its watcher list)   *)
(* and the WatcherGuard are collaborators whose code is not in src/; they  *)
(* are modelled from the specification.                                    *)
(***************************************************************************)
EXTENDS Integers, Sequences, FiniteSets, TLC

\* ---- bounds ----
MaxVal == 1          \* leaf values written are 0..MaxVal
MaxNodes == 2        \* Map structs ever constructed (new or clone)
MaxWatchers == 2     \* watcher registrations ever made

Leaf == 0
LeafVals == 0 .. MaxVal
Metadatas == {"m0", "m1"}
Transforms == {"dbl", "inc"}
NodeIds == 1 .. MaxNodes
WatcherIds == 1 .. MaxWatchers

VARIABLES
    value,      \* the value stored in the leaf Binding
    nodes,      \* Map structs: <<[source, f, kind]>>, index = struct id
    status,     \* per Map struct: "held" by the application, "moved", "dropped"
    watchers,   \* the leaf Binding's watcher list, in registration order
    guards,     \* WatcherGuards the application still holds (by watcher id)
    nextW,      \* id of the next watcher to be registered
    applied,    \* per transform instance: applications made by the last operation
    log,        \* watcher.notify calls made by the last operation, in order
    lastOp      \* the last operation and what it returned

vars == <<value, nodes, status, watchers, guards, nextW, applied, log, lastOp>>

\* ---- transforms (user closures F: Fn(C::Output) -> Output) ----
Apply(k, v) == IF k = "dbl" THEN v * 2 ELSE v + 1

\* ---- Binding (leaf), modelled from the specification ----
BindingCompute(x) == x

BindingAddWatcher(list, cb) == Append(list, cb)

\* ---- Map::compute: (self.f)(self.source.compute()) ----
\* x is the value the leaf holds when the call is made.
RECURSIVE MapCompute(_, _)

\* returns the source's value without applying the transform
MapComputeNoTransform(n, x) ==
    LET s == nodes[n].source
    IN  IF s = Leaf THEN BindingCompute(x) ELSE MapCompute(s, x)

\* applies the transform to the leaf's value instead of the source's
MapComputeFromLeaf(n, x) == Apply(nodes[n].kind, BindingCompute(x))

MapCompute(n, x) ==
    LET s == nodes[n].source
    IN  Apply(nodes[n].kind, IF s = Leaf THEN BindingCompute(x) ELSE MapCompute(s, x))

\* self.source.compute() as seen from Map n
SourceCompute(n, x) ==
    LET s == nodes[n].source
    IN  IF s = Leaf THEN BindingCompute(x) ELSE MapCompute(s, x)

\* number of times transform instance fid is called by one compute() on n
RECURSIVE ComputeApplies(_, _)
ComputeApplies(n, fid) ==
    LET s == nodes[n].source
    IN  (IF nodes[n].f = fid THEN 1 ELSE 0)
        + (IF s = Leaf THEN 0 ELSE ComputeApplies(s, fid))

\* ---- Map::add_watcher: source.add_watcher(move |_value, metadata| ...) ----
\* A callback is [w, path]: the caller's watcher w wrapped in the forwarding
\* closures of the Maps in path (outermost closure first, each holding `this`).
Wrap(n, cb) == [w |-> cb.w, path |-> <<n>> \o cb.path]

RECURSIVE MapAddWatcher(_, _, _)

\* puts the forwarding closure in front of the watchers already on the leaf
MapAddWatcherInFront(n, cb, list) ==
    LET s == nodes[n].source
    IN  IF s = Leaf THEN <<Wrap(n, cb)>> \o list
        ELSE MapAddWatcher(s, Wrap(n, cb), list)

\* keeps the watcher in a list of the Map's own; the source is not touched
MapAddWatcherOwnList(n, cb, list) == list

\* installs the forwarding closure on the source twice
MapAddWatcherTwice(n, cb, list) ==
    LET s == nodes[n].source
    IN  IF s = Leaf
        THEN BindingAddWatcher(BindingAddWatcher(list, Wrap(n, cb)), Wrap(n, cb))
        ELSE MapAddWatcher(s, Wrap(n, cb), MapAddWatcher(s, Wrap(n, cb), list))

MapAddWatcher(n, cb, list) ==
    LET s == nodes[n].source
    IN  IF s = Leaf THEN BindingAddWatcher(list, Wrap(n, cb))
        ELSE MapAddWatcher(s, Wrap(n, cb), list)

\* notify calls made while Map::add_watcher itself runs: it only registers
AddWatcherNotifiesNow(n, cb, x) ==
    <<[w |-> cb.w, val |-> MapCompute(n, x), md |-> "none"]>>

AddWatcherNotifies(n, cb, x) == <<>>

\* The value the forwarding closure hands on:
\*   |_value, metadata| watcher.notify(this.compute(), metadata)
ForwardedPayload(this, payload, x) == payload

Forwarded(this, payload, x) == MapCompute(this, x)

\* Calling a callback with (payload, md) while the leaf holds x: the
\* notify calls that finally reach the caller's watcher, in order.
RECURSIVE Invoke(_, _, _, _)

\* a forwarding closure that makes up fresh metadata instead of passing it on
InvokeFreshMetadata(cb, payload, md, x) ==
    IF cb.path = <<>> THEN <<[w |-> cb.w, val |-> payload, md |-> md]>>
    ELSE Invoke([w |-> cb.w, path |-> Tail(cb.path)],
                Forwarded(Head(cb.path), payload, x), "m0", x)

InvokeDirectOnly(cb, payload, md, x) ==
    IF Len(cb.path) > 1 THEN <<>>
    ELSE <<[w |-> cb.w, md |-> md,
            val |-> IF cb.path = <<>> THEN payload ELSE MapCompute(cb.path[1], x)]>>

Invoke(cb, payload, md, x) ==
    IF cb.path = <<>> THEN <<[w |-> cb.w, val |-> payload, md |-> md]>>
    ELSE Invoke([w |-> cb.w, path |-> Tail(cb.path)],
                Forwarded(Head(cb.path), payload, x), md, x)

\* a forwarding closure that hands the payload on without recomputing
InvokeAppliesNone(path, fid) == 0

\* forwarding closures that each apply only their own transform to the payload
InvokeAppliesOwnOnly(path, fid) ==
    Cardinality({i \in DOMAIN path : nodes[path[i]].f = fid})

\* applications of transform instance fid while a callback runs once
RECURSIVE InvokeApplies(_, _)
InvokeApplies(path, fid) ==
    IF path = <<>> THEN 0
    ELSE ComputeApplies(Head(path), fid) + InvokeApplies(Tail(path), fid)

\* ---- Binding write fan-out, modelled from the specification ----
RECURSIVE FanOut(_, _, _)
FanOut(list, x, md) ==
    IF list = <<>> THEN <<>>
    ELSE Invoke(Head(list), x, md, x) \o FanOut(Tail(list), x, md)

RECURSIVE FanOutApplies(_, _)
FanOutApplies(list, fid) ==
    IF list = <<>> THEN 0
    ELSE InvokeApplies(Head(list).path, fid) + FanOutApplies(Tail(list), fid)

RECURSIVE RemoveWatcher(_, _)
RemoveWatcher(list, w) ==
    IF list = <<>> THEN <<>>
    ELSE IF Head(list).w = w THEN Tail(list)
    ELSE <<Head(list)>> \o RemoveWatcher(Tail(list), w)

NoApplies == [fid \in NodeIds |-> 0]

\* again: the operation is a compute() on the Map that the operation just
\* before it also computed (nothing happened in between)
Op(o, n, w, v, md) ==
    [op |-> o, node |-> n, w |-> w, val |-> v, md |-> md,
     again |-> o = "compute" /\ lastOp.op = "compute" /\ lastOp.node = n]

Held(n) == n \in 1 .. Len(nodes) /\ status[n] = "held"

Init ==
    /\ value = 0
    /\ nodes = <<>>
    /\ status = <<>>
    /\ watchers = <<>>
    /\ guards = {}
    /\ nextW = 1
    /\ applied = NoApplies
    /\ log = <<>>
    /\ lastOp = [op |-> "init", node |-> 0, w |-> 0, val |-> 0, md |-> "none",
                 again |-> FALSE]

\* a constructor that subscribes to its source straight away
MapNewEager(s, k) ==
    /\ Len(nodes) < MaxNodes
    /\ s = Leaf \/ Held(s)
    /\ nodes' = Append(nodes, [source |-> s, f |-> Len(nodes) + 1, kind |-> k])
    /\ status' = Append(IF s = Leaf THEN status ELSE [status EXCEPT ![s] = "moved"], "held")
    /\ watchers' = BindingAddWatcher(watchers, [w |-> 0, path |-> <<>>])
    /\ log' = <<>>
    /\ lastOp' = Op("new", Len(nodes) + 1, 0, 0, "none")
    /\ applied' = NoApplies
    /\ UNCHANGED <<value, guards, nextW>>

\* Map::new(source, f) / map(source, f): source is moved into the new Map
MapNew(s, k) ==
    /\ Len(nodes) < MaxNodes
    /\ s = Leaf \/ Held(s)
    /\ nodes' = Append(nodes, [source |-> s, f |-> Len(nodes) + 1, kind |-> k])
    /\ status' = Append(IF s = Leaf THEN status ELSE [status EXCEPT ![s] = "moved"], "held")
    /\ log' = <<>>
    /\ lastOp' = Op("new", Len(nodes) + 1, 0, 0, "none")
    /\ applied' = NoApplies
    /\ UNCHANGED <<value, watchers, guards, nextW>>

\* a clone that copies the transform into a fresh Rc
MapCloneDeep(n) ==
    /\ Len(nodes) < MaxNodes
    /\ Held(n)
    /\ nodes' = Append(nodes, [source |-> nodes[n].source, f |-> Len(nodes) + 1,
                               kind |-> nodes[n].kind])
    /\ status' = Append(status, "held")
    /\ log' = <<>>
    /\ lastOp' = Op("clone", Len(nodes) + 1, 0, 0, "none")
    /\ applied' = NoApplies
    /\ UNCHANGED <<value, watchers, guards, nextW>>

\* Clone for Map: same source (cloned handle), same Rc<F>
MapClone(n) ==
    /\ Len(nodes) < MaxNodes
    /\ Held(n)
    /\ nodes' = Append(nodes, [source |-> nodes[n].source, f |-> nodes[n].f,
                               kind |-> nodes[n].kind])
    /\ status' = Append(status, "held")
    /\ log' = <<>>
    /\ lastOp' = Op("clone", Len(nodes) + 1, 0, 0, "none")
    /\ applied' = NoApplies
    /\ UNCHANGED <<value, watchers, guards, nextW>>

\* a compute() that writes its result back into the leaf
ComputeStoring(n) ==
    /\ Held(n)
    /\ value' = MapCompute(n, value)
    /\ applied' = [fid \in NodeIds |-> ComputeApplies(n, fid)]
    /\ log' = <<>>
    /\ lastOp' = Op("compute", n, 0, MapCompute(n, value), "none")
    /\ UNCHANGED <<nodes, status, watchers, guards, nextW>>

\* a compute() that also notifies the watchers registered on the leaf
ComputeNotifying(n) ==
    /\ Held(n)
    /\ applied' = [fid \in NodeIds |-> ComputeApplies(n, fid)]
    /\ log' = FanOut(watchers, value, "m0")
    /\ lastOp' = Op("compute", n, 0, MapCompute(n, value), "none")
    /\ UNCHANGED <<value, nodes, status, watchers, guards, nextW>>

\* the application calls compute() on a Map it holds
Compute(n) ==
    /\ Held(n)
    /\ applied' = [fid \in NodeIds |-> ComputeApplies(n, fid)]
    /\ log' = <<>>
    /\ lastOp' = Op("compute", n, 0, MapCompute(n, value), "none")
    /\ UNCHANGED <<value, nodes, status, watchers, guards, nextW>>

\* the application registers a fresh watcher on a Map it holds, or on the leaf
AddWatcher(n) ==
    /\ nextW <= MaxWatchers
    /\ n = Leaf \/ Held(n)
    /\ watchers' = IF n = Leaf
                   THEN BindingAddWatcher(watchers, [w |-> nextW, path |-> <<>>])
                   ELSE MapAddWatcher(n, [w |-> nextW, path |-> <<>>], watchers)
    /\ guards' = guards \cup {nextW}
    /\ nextW' = nextW + 1
    /\ log' = IF n = Leaf THEN <<>>
              ELSE AddWatcherNotifies(n, [w |-> nextW, path |-> <<>>], value)
    /\ lastOp' = Op("add_watcher", n, nextW, 0, "none")
    /\ applied' = NoApplies
    /\ UNCHANGED <<value, nodes, status>>

\* the application releases a WatcherGuard
ReleaseGuard(w) ==
    /\ w \in guards
    /\ watchers' = RemoveWatcher(watchers, w)
    /\ guards' = guards \ {w}
    /\ log' = <<>>
    /\ lastOp' = Op("release", 0, w, 0, "none")
    /\ applied' = NoApplies
    /\ UNCHANGED <<value, nodes, status, nextW>>

\* a drop that also unsubscribes the forwarding closures holding this Map
DropMapReleasing(n) ==
    /\ Held(n)
    /\ status' = [status EXCEPT ![n] = "dropped"]
    /\ watchers' = SelectSeq(watchers,
                       LAMBDA cb : \A i \in DOMAIN cb.path : cb.path[i] # n)
    /\ log' = <<>>
    /\ lastOp' = Op("drop", n, 0, 0, "none")
    /\ applied' = NoApplies
    /\ UNCHANGED <<value, nodes, guards, nextW>>

\* the application drops a Map it holds; Map has no Drop of its own, so
\* only its fields (source handle, Rc<F>) are released
DropMap(n) ==
    /\ Held(n)
    /\ status' = [status EXCEPT ![n] = "dropped"]
    /\ log' = <<>>
    /\ lastOp' = Op("drop", n, 0, 0, "none")
    /\ applied' = NoApplies
    /\ UNCHANGED <<value, nodes, watchers, guards, nextW>>

\* leaf write: store, then notify every registered watcher in order
Write(v, md) ==
    /\ value' = v
    /\ log' = FanOut(watchers, v, md)
    /\ applied' = [fid \in NodeIds |-> FanOutApplies(watchers, fid)]
    /\ lastOp' = Op("write", Leaf, 0, v, md)
    /\ UNCHANGED <<nodes, status, watchers, guards, nextW>>

Next ==
    \/ \E s \in {Leaf} \cup NodeIds, k \in Transforms : MapNew(s, k)
    \/ \E n \in NodeIds : MapClone(n)
    \/ \E n \in NodeIds : Compute(n)
    \/ \E n \in {Leaf} \cup NodeIds : AddWatcher(n)
    \/ \E w \in WatcherIds : ReleaseGuard(w)
    \/ \E n \in NodeIds : DropMap(n)
    \/ \E v \in LeafVals, md \in Metadatas : Write(v, md)

Spec == Init /\ [][Next]_vars

\* ---- utils::add(a, b): map(zip(a, b), |(a, b)| a.add(b)) ----
\* An operand is the leaf (a cloned Binding handle) or a Map.  The Map that
\* add returns is the node [source, source2, f, kind = "add"]: its source is
\* the Zip of source and source2; its status is "sum" while the application
\* holds it.
OperandCompute(s, x) == IF s = Leaf THEN BindingCompute(x) ELSE MapCompute(s, x)

OperandApplies(s, fid) == IF s = Leaf THEN 0 ELSE ComputeApplies(s, fid)

\* Zip::compute, modelled from the specification: the pair of both values
ZipCompute(a, b, x) == <<OperandCompute(a, x), OperandCompute(b, x)>>

\* a closure that adds the first component to itself
AddFnFirstTwice(p) == p[1] + p[1]

\* the closure |(a, b)| a.add(b)
AddFn(p) == p[1] + p[2]

\* Map::compute on the Map returned by add
AddCompute(n, x) == AddFn(ZipCompute(nodes[n].source, nodes[n].source2, x))

Movable(s) == s = Leaf \/ Held(s)

\* add(a, b): both operands are moved into the Zip
AddNew(a, b) ==
    /\ \A n \in 1 .. Len(nodes) : nodes[n].kind # "add"
    /\ Movable(a) /\ Movable(b)
    /\ a = b => a = Leaf
    /\ nodes' = Append(nodes, [source |-> a, source2 |-> b, f |-> Len(nodes) + 1,
                               kind |-> "add"])
    /\ status' = Append([n \in 1 .. Len(nodes) |->
                            IF n = a \/ n = b THEN "moved" ELSE status[n]], "sum")
    /\ log' = <<>>
    /\ lastOp' = Op("add", Len(nodes) + 1, 0, 0, "none")
    /\ applied' = NoApplies
    /\ UNCHANGED <<value, watchers, guards, nextW>>

\* the application calls compute() on the Map returned by add
ComputeAdd(n) ==
    /\ n \in 1 .. Len(nodes)
    /\ status[n] = "sum"
    /\ applied' = [fid \in NodeIds |-> OperandApplies(nodes[n].source, fid)
                                        + OperandApplies(nodes[n].source2, fid)]
    /\ log' = <<>>
    /\ lastOp' = Op("compute_add", n, 0, AddCompute(n, value), "none")
    /\ UNCHANGED <<value, nodes, status, watchers, guards, nextW>>

NextAdd ==
    \/ \E s \in {Leaf} \cup NodeIds, k \in Transforms : MapNew(s, k)
    \/ \E n \in NodeIds : MapClone(n)
    \/ \E v \in LeafVals, md \in Metadatas : Write(v, md)
    \/ \E a, b \in {Leaf} \cup NodeIds : AddNew(a, b)
    \/ \E n \in 1 .. (MaxNodes + 1) : ComputeAdd(n)

SpecAdd == Init /\ [][NextAdd]_vars

\* ---- failures: a transform or a watcher that panics ----
\* A Map of kind "boom" has a transform that panics on every input; bad is
\* the set of registered watchers whose notify panics during the write at hand.
FailKinds == {"inc", "boom"}

Fine == [ok |-> TRUE, by |-> "none", at |-> Leaf]

\* Map::compute: source.compute() is evaluated first, then the transform;
\* a panic of either leaves compute() as raised
RECURSIVE ComputeOutcome(_)
ComputeOutcome(n) ==
    LET s == nodes[n].source
        below == IF s = Leaf THEN Fine ELSE ComputeOutcome(s)
    IN  IF ~below.ok THEN below
        ELSE IF nodes[n].kind = "boom"
             THEN [ok |-> FALSE, by |-> "transform", at |-> n]
             ELSE Fine

\* a forwarding closure that catches whatever unwinds and returns normally
InvokeOutcomeCaught(cb, bad) == Fine

\* the forwarding closures of a callback, run as by Invoke: nothing catches
\* a panic of this.compute() or of watcher.notify
RECURSIVE InvokeOutcome(_, _)
InvokeOutcome(cb, bad) ==
    IF cb.path = <<>>
    THEN IF cb.w \in bad THEN [ok |-> FALSE, by |-> "watcher", at |-> Leaf] ELSE Fine
    ELSE LET c == ComputeOutcome(Head(cb.path))
         IN  IF ~c.ok THEN c
             ELSE InvokeOutcome([w |-> cb.w, path |-> Tail(cb.path)], bad)

\* Binding write fan-out with failures, modelled from the specification: the
\* first callback that panics ends the pass; w is the watcher it was for
RECURSIVE FanOutUntilFailure(_, _, _, _)
FanOutUntilFailure(list, x, md, bad) ==
    IF list = <<>> THEN [log |-> <<>>, out |-> Fine, w |-> 0]
    ELSE LET o == InvokeOutcome(Head(list), bad)
         IN  IF ~o.ok THEN [log |-> <<>>, out |-> o, w |-> Head(list).w]
             ELSE LET r == FanOutUntilFailure(Tail(list), x, md, bad)
                  IN  [log |-> Invoke(Head(list), x, md, x) \o r.log,
                       out |-> r.out, w |-> r.w]

\* leaf write while transforms or watchers may panic; applied counts the
\* applications made for the deliveries that completed
WriteFailing(v, md, bad) ==
    LET r == FanOutUntilFailure(watchers, v, md, bad)
    IN  /\ value' = v
        /\ log' = r.log
        /\ applied' = [fid \in NodeIds |->
                          FanOutApplies(SubSeq(watchers, 1, Len(r.log)), fid)]
        /\ lastOp' = IF r.out.ok THEN Op("write", Leaf, 0, v, md)
                     ELSE Op("write_failed", r.out.at, r.w, v, md)
        /\ UNCHANGED <<nodes, status, watchers, guards, nextW>>

NextFail ==
    \/ \E s \in {Leaf} \cup NodeIds, k \in FailKinds : MapNew(s, k)
    \/ \E n \in {Leaf} \cup NodeIds : AddWatcher(n)
    \/ \E w \in WatcherIds : ReleaseGuard(w)
    \/ \E v \in LeafVals, md \in Metadatas, bad \in SUBSET guards :
          WriteFailing(v, md, bad)

SpecFail == Init /\ [][NextFail]_vars

\* ---- vocabulary of the properties ----
Nodes == 1 .. Len(nodes)

\* the transforms between the leaf and Map n, innermost first
RECURSIVE KindsOf(_)
KindsOf(n) ==
    IF nodes[n].source = Leaf THEN <<nodes[n].kind>>
    ELSE Append(KindsOf(nodes[n].source), nodes[n].kind)

RECURSIVE ApplyChain(_, _)
ApplyChain(ks, v) ==
    IF ks = <<>> THEN v ELSE ApplyChain(Tail(ks), Apply(Head(ks), v))

Depth(n) == Len(KindsOf(n))

\* the node a registered callback was registered on (Leaf for a direct watcher)
Target(cb) == IF cb.path = <<>> THEN Leaf ELSE cb.path[Len(cb.path)]

Registered(w) == \E i \in DOMAIN watchers : watchers[i].w = w

Deliveries(w) == {i \in DOMAIN log : log[i].w = w}

\* what a watcher registered on node t must be told after the leaf was set to v
Expected(t, v) == IF t = Leaf THEN v ELSE ApplyChain(KindsOf(t), v)

TypeOK ==
    /\ value \in LeafVals
    /\ Len(nodes) <= MaxNodes
    /\ Len(status) = Len(nodes)
    /\ Len(watchers) <= MaxWatchers

\* C1: map(source, f).compute() returns f applied to what source.compute()
\* returns for the value the source holds when the call is made.
C1_ComputeIsTransformOfSource ==
    lastOp.op = "compute" =>
        lastOp.val = Apply(nodes[lastOp.node].kind, SourceCompute(lastOp.node, value))

C1_Witness ==
    /\ lastOp.op = "compute"
    /\ nodes[lastOp.node].source # Leaf
    /\ nodes[lastOp.node].kind = "dbl"
    /\ lastOp.val = 4

\* C2: after a leaf write of n, compute() of every Map built on the leaf, at
\* any depth, is the whole chain of its transforms applied to n; nothing has
\* to be refreshed between the write and the read.
C2_ChainedPropagation ==
    /\ lastOp.op = "write" =>
          \A n \in Nodes : MapCompute(n, value) = ApplyChain(KindsOf(n), lastOp.val)
    /\ lastOp.op = "compute" =>
          lastOp.val = ApplyChain(KindsOf(lastOp.node), value)

C2_Witness ==
    /\ lastOp.op = "compute"
    /\ Depth(lastOp.node) = 2
    /\ KindsOf(lastOp.node) = <<"dbl", "inc">>
    /\ value = 1
    /\ lastOp.val = 3

\* C3: on a leaf write, a watcher registered on a Map is told the Map's value
\* recomputed from the live source (the chain of transforms applied to the
\* value just written), not the raw payload of the source's notification.
C3_WatcherGetsRecomputedValue ==
    lastOp.op = "write" =>
        \A j \in DOMAIN watchers :
            LET t == Target(watchers[j])
            IN  t # Leaf =>
                  /\ Deliveries(watchers[j].w) # {}
                  /\ \A i \in Deliveries(watchers[j].w) :
                        /\ log[i].val = MapCompute(t, value)
                        /\ log[i].val = ApplyChain(KindsOf(t), lastOp.val)

C3_Witness ==
    /\ lastOp.op = "write"
    /\ lastOp.val = 1
    /\ \E j \in DOMAIN watchers :
          /\ Target(watchers[j]) # Leaf
          /\ KindsOf(Target(watchers[j])) = <<"inc", "dbl">>
          /\ \E i \in DOMAIN log : log[i].w = watchers[j].w /\ log[i].val = 4

\* C4: a leaf write notifies every watcher registered on the leaf or on a Map
\* derived from it exactly once, with the new value, within the write itself.
C4_ExactlyOncePerWrite ==
    lastOp.op = "write" =>
        /\ Len(log) = Len(watchers)
        /\ \A j \in DOMAIN watchers :
              /\ Cardinality(Deliveries(watchers[j].w)) = 1
              /\ \A i \in Deliveries(watchers[j].w) :
                    log[i].val = Expected(Target(watchers[j]), lastOp.val)

C4_Witness ==
    /\ lastOp.op = "write"
    /\ Len(watchers) = 2
    /\ Len(log) = 2
    /\ Target(watchers[1]) # Leaf
    /\ Target(watchers[2]) # Leaf
    /\ \E j \in DOMAIN watchers : Depth(Target(watchers[j])) = 2

\* C5: a watcher whose WatcherGuard was released is not invoked by a later
\* leaf write, and every watcher whose guard is still held is.
C5_GuardSemantics ==
    lastOp.op = "write" =>
        \A w \in 1 .. (nextW - 1) :
            /\ w \notin guards => Deliveries(w) = {}
            /\ w \in guards => Deliveries(w) # {}

C5_Witness ==
    /\ lastOp.op = "write"
    /\ nextW = 3
    /\ guards = {2}
    /\ Len(watchers) = 1
    /\ Target(watchers[1]) # Leaf
    /\ Deliveries(2) = {1}
    /\ Deliveries(1) = {}

\* C6: add_watcher on a Map notifies nobody while it registers; a watcher is
\* only ever notified by a leaf write.
C6_NoFireOnRegistration ==
    /\ lastOp.op = "add_watcher" => log = <<>>
    /\ log # <<>> => lastOp.op = "write"

C6_Witness ==
    /\ lastOp.op = "add_watcher"
    /\ lastOp.node # Leaf
    /\ Depth(lastOp.node) = 2
    /\ Registered(lastOp.w)
    /\ log = <<>>

\* C7: two watchers registered on one Map are notified by a leaf write in the
\* order of their registration, the earlier strictly before the later.
C7_RegistrationOrder ==
    lastOp.op = "write" =>
        \A j1, j2 \in DOMAIN watchers :
            ( /\ watchers[j1].w < watchers[j2].w
              /\ Target(watchers[j1]) # Leaf
              /\ Target(watchers[j1]) = Target(watchers[j2]) )
            => /\ Deliveries(watchers[j1].w) # {}
               /\ Deliveries(watchers[j2].w) # {}
               /\ \A i1 \in Deliveries(watchers[j1].w), i2 \in Deliveries(watchers[j2].w) :
                     i1 < i2

C7_Witness ==
    /\ lastOp.op = "write"
    /\ Len(watchers) = 2
    /\ Target(watchers[1]) # Leaf
    /\ Target(watchers[1]) = Target(watchers[2])
    /\ Len(log) = 2
    /\ log[1].w = 1
    /\ log[2].w = 2

\* C8: constructing Maps (new, clone) and calling compute() leaves the
\* source's watcher list as it was; the list only grows inside add_watcher.
C8_NoWatcherCost ==
    [][ /\ lastOp'.op \in {"new", "clone", "compute"} => watchers' = watchers
        /\ Len(watchers') > Len(watchers) => lastOp'.op = "add_watcher" ]_vars

C8_Witness ==
    /\ lastOp.op = "compute"
    /\ Len(nodes) = MaxNodes
    /\ nextW = 2
    /\ Len(watchers) = 1
    /\ Target(watchers[1]) = Leaf

\* C9: a second compute() on a Map, with nothing happening since the first,
\* uses a cached value and does not apply the transform again.
C9_SecondComputeUsesCache ==
    lastOp.again => applied = NoApplies

\* every handle on the Map sharing transform instance of n has been dropped
Destroyed(n) ==
    \A m \in Nodes : nodes[m].f = nodes[n].f => status[m] = "dropped"

\* C10 as claimed: once the last owner of a Map has released it, no
\* forwarding watcher of that Map is left on the source's watcher list.
C10_DropReleasesRegistrations ==
    \A n \in Nodes :
        Destroyed(n) =>
            \A j \in DOMAIN watchers :
                \A i \in DOMAIN watchers[j].path :
                    nodes[watchers[j].path[i]].f # nodes[n].f

\* C10 as amended: dropping a Map releases no registration; a forwarding
\* watcher is on the source's list exactly while its WatcherGuard is held,
\* and leaf writes keep notifying it also after its Map was dropped.
C10_RegistrationOutlivesMap ==
    /\ \A w \in 1 .. (nextW - 1) : Registered(w) <=> w \in guards
    /\ lastOp.op = "write" =>
          \A j \in DOMAIN watchers : Deliveries(watchers[j].w) # {}

C10_Witness ==
    /\ lastOp.op = "write"
    /\ \E j \in DOMAIN watchers :
          /\ Target(watchers[j]) # Leaf
          /\ Destroyed(Target(watchers[j]))
          /\ Deliveries(watchers[j].w) # {}

\* C11: compute() called again on a Map, with no leaf write in between,
\* returns the same result; no step other than a leaf write changes what
\* compute() returns on any Map.
C11_ComputeIdempotent ==
    [][ /\ (lastOp.op = "compute" /\ lastOp'.op = "compute"
              /\ lastOp'.node = lastOp.node) => lastOp'.val = lastOp.val
        /\ lastOp'.op # "write" =>
              \A n \in Nodes : MapCompute(n, value)' = MapCompute(n, value) ]_vars

C11_Witness ==
    /\ lastOp.again
    /\ Depth(lastOp.node) = 2
    /\ value = 1
    /\ lastOp.val = ApplyChain(KindsOf(lastOp.node), 1)

\* C12: the metadata a watcher on a Map (at any depth) is handed is the
\* metadata of the leaf notification that triggered it.
C12_MetadataPassThrough ==
    lastOp.op = "write" =>
        /\ \A i \in DOMAIN log : log[i].md = lastOp.md
        /\ \A j \in DOMAIN watchers :
              \E i \in DOMAIN log : log[i].w = watchers[j].w /\ log[i].md = lastOp.md

C12_Witness ==
    /\ lastOp.op = "write"
    /\ lastOp.md = "m1"
    /\ \E j \in DOMAIN watchers :
          /\ Len(watchers[j].path) = 2
          /\ \E i \in DOMAIN log : log[i].w = watchers[j].w /\ log[i].md = "m1"

\* C13: compute() on a Map changes nothing of the graph (leaf value, watcher
\* list, guards, other nodes and their ownership) and notifies no watcher.
C13_ComputeHasNoSideEffect ==
    [][ lastOp'.op = "compute" =>
          /\ UNCHANGED <<value, nodes, status, watchers, guards, nextW>>
          /\ log' = <<>> ]_vars

C13_Witness ==
    /\ lastOp.op = "compute"
    /\ Len(watchers) = 2
    /\ \E j \in DOMAIN watchers : Target(watchers[j]) = lastOp.node
    /\ value = 1
    /\ log = <<>>

\* the Maps between the leaf and Map n, innermost first, n last
RECURSIVE ChainOf(_)
ChainOf(n) ==
    IF nodes[n].source = Leaf THEN <<n>> ELSE Append(ChainOf(nodes[n].source), n)

\* a Map that is a clone: its transform instance was created by another Map
IsClone(c) == nodes[c].f # c

\* C14: a clone of a Map holds the same transform instance and the same
\* source as the Map it was cloned from; whatever is written to the leaf, its
\* compute() equals the original's, and a watcher registered through the
\* clone is notified by leaf writes with the original's value.
C14_ClonesShareState ==
    [][ /\ lastOp'.op = "clone" =>
              \E o \in Nodes : Held(o) /\ nodes' = Append(nodes, nodes[o])
        /\ \A c \in DOMAIN nodes' :
              (nodes'[c].f # c) =>
                  /\ nodes'[c].source = nodes'[nodes'[c].f].source
                  /\ MapCompute(c, value)' = MapCompute(nodes[c].f, value)'
        /\ lastOp'.op = "compute" =>
              \A c \in DOMAIN nodes' :
                  (lastOp'.node = c /\ nodes'[c].f # c) =>
                      lastOp'.val = MapCompute(nodes[c].f, value)'
        /\ lastOp'.op = "write" =>
              \A j \in DOMAIN watchers', c \in DOMAIN nodes' :
                  (Target(watchers'[j]) = c /\ nodes'[c].f # c) =>
                      \E i \in DOMAIN log' :
                          /\ log'[i].w = watchers'[j].w
                          /\ log'[i].val = MapCompute(nodes[c].f, value)' ]_vars

C14_Witness ==
    /\ lastOp.op = "write"
    /\ lastOp.val = 1
    /\ \E j \in DOMAIN watchers :
          LET c == Target(watchers[j])
          IN  /\ c # Leaf
              /\ IsClone(c)
              /\ \E i \in DOMAIN log :
                    /\ log[i].w = watchers[j].w
                    /\ log[i].val = Expected(nodes[c].f, 1)

\* C16: add_watcher on a Map appends exactly one forwarding watcher to the
\* source's watcher list and the guard it returns is that registration's;
\* releasing the guard removes exactly that watcher, so the list is as long
\* as before the registration.
C16_OneRegistrationOnSource ==
    [][ /\ (lastOp'.op = "add_watcher" /\ lastOp'.node # Leaf) =>
              /\ Len(watchers') = Len(watchers) + 1
              /\ SubSeq(watchers', 1, Len(watchers)) = watchers
              /\ watchers'[Len(watchers')].w = lastOp'.w
              /\ Target(watchers'[Len(watchers')]) = lastOp'.node
              /\ guards' = guards \cup {lastOp'.w}
        /\ lastOp'.op = "release" =>
              /\ Len(watchers') = Len(watchers) - 1
              /\ watchers' = SelectSeq(watchers, LAMBDA cb : cb.w # lastOp'.w) ]_vars

C16_Witness ==
    /\ lastOp.op = "release"
    /\ lastOp.w = 2
    /\ Len(watchers) = 1
    /\ watchers[1].w = 1
    /\ Target(watchers[1]) # Leaf
    /\ Depth(Target(watchers[1])) = 2

\* transform instance fid is used by Map n or by a Map below it
ChainUses(n, fid) == \E i \in DOMAIN ChainOf(n) : nodes[ChainOf(n)[i]].f = fid

\* the watchers that touch fid are all registered directly on a Map that
\* holds fid and sits directly on the leaf
OnlyDirect(fid) ==
    \A j \in DOMAIN watchers :
        \A i \in DOMAIN watchers[j].path :
            ChainUses(watchers[j].path[i], fid) =>
                /\ Len(watchers[j].path) = 1
                /\ nodes[watchers[j].path[1]].source = Leaf

DirectWatchers(fid) ==
    {j \in DOMAIN watchers :
        Len(watchers[j].path) = 1 /\ nodes[watchers[j].path[1]].f = fid}

\* C17: with k watchers registered on one Map built directly on the leaf, a
\* leaf write applies that Map's transform exactly k times.
C17_RecomputePerWatcher ==
    lastOp.op = "write" =>
        \A fid \in NodeIds :
            OnlyDirect(fid) => applied[fid] = Cardinality(DirectWatchers(fid))

C17_Witness ==
    /\ lastOp.op = "write"
    /\ Len(watchers) = 2
    /\ watchers[1].path = watchers[2].path
    /\ Len(watchers[1].path) = 1
    /\ applied[nodes[watchers[1].path[1]].f] = 2

\* times one notification of a watcher registered on t applies instance fid:
\* the i-th transform of a chain of depth d is applied d - i + 1 times
AppliesPerNotification(t, fid) ==
    IF t = Leaf \/ ~ChainUses(t, fid) THEN 0
    ELSE LET ch == ChainOf(t)
             i == CHOOSE k \in DOMAIN ch : nodes[ch[k]].f = fid
         IN  Len(ch) - i + 1

RECURSIVE SumApplies(_, _)
SumApplies(list, fid) ==
    IF list = <<>> THEN 0
    ELSE AppliesPerNotification(Target(Head(list)), fid) + SumApplies(Tail(list), fid)

\* C19: for outer = map(map(leaf, f), g) with one watcher on outer, a leaf
\* write applies f twice and g once; in general each notification delivered
\* to a watcher on a chain of depth d applies the i-th transform d - i + 1
\* times, the innermost d times.
C19_ChainRecomputeCost ==
    lastOp.op = "write" =>
        \A fid \in NodeIds : applied[fid] = SumApplies(watchers, fid)

C19_Witness ==
    /\ lastOp.op = "write"
    /\ Len(watchers) = 1
    /\ Len(watchers[1].path) = 2
    /\ applied[nodes[watchers[1].path[1]].f] = 2
    /\ applied[nodes[watchers[1].path[2]].f] = 1

\* C15: compute() on add(a, b) is a.compute() + b.compute() for the values
\* a and b have now, whatever was written to the leaf before.
C15_AddIsSum ==
    lastOp.op = "compute_add" =>
        lastOp.val = Expected(nodes[lastOp.node].source, value)
                     + Expected(nodes[lastOp.node].source2, value)

C15_Witness ==
    /\ lastOp.op = "compute_add"
    /\ value = 1
    /\ nodes[lastOp.node].source # Leaf
    /\ nodes[lastOp.node].source2 # Leaf
    /\ KindsOf(nodes[lastOp.node].source) = <<"dbl">>
    /\ KindsOf(nodes[lastOp.node].source2) = <<"inc">>
    /\ lastOp.val = 4

\* Map n or a Map below it has a panicking transform
ChainPanics(n) == \E i \in DOMAIN ChainOf(n) : nodes[ChainOf(n)[i]].kind = "boom"

\* the position on the leaf's list of the registration of watcher w
IndexOf(w) == CHOOSE j \in DOMAIN watchers : watchers[j].w = w

\* C18: a transform or watcher that fails while a leaf write notifies is not
\* caught by Map: the write ends with that very failure (the panicking
\* transform, or the watcher's own panic), never with a normal return while
\* a registered watcher sits on a panicking Map; the watchers before the
\* failing one were notified.
C18_FailureSurfacesUnwrapped ==
    /\ lastOp.op = "write" =>
          \A j \in DOMAIN watchers :
              Target(watchers[j]) # Leaf => ~ChainPanics(Target(watchers[j]))
    /\ lastOp.op = "write_failed" =>
          /\ Registered(lastOp.w)
          /\ LET t == Target(watchers[IndexOf(lastOp.w)])
             IN  IF t # Leaf /\ ChainPanics(t)
                 THEN /\ lastOp.node # Leaf
                      /\ nodes[lastOp.node].kind = "boom"
                      /\ \E i \in DOMAIN ChainOf(t) :
                            /\ ChainOf(t)[i] = lastOp.node
                            /\ \A k \in 1 .. (i - 1) : nodes[ChainOf(t)[k]].kind # "boom"
                 ELSE lastOp.node = Leaf
          /\ \A j \in 1 .. (IndexOf(lastOp.w) - 1) : Deliveries(watchers[j].w) # {}

\* a watcher registered after the failing one is not notified for the write
C18_Witness ==
    /\ lastOp.op = "write_failed"
    /\ Len(watchers) = 2
    /\ lastOp.w = watchers[1].w
    /\ lastOp.node # Leaf
    /\ Target(watchers[2]) # Leaf
    /\ ~ChainPanics(Target(watchers[2]))
    /\ Deliveries(watchers[2].w) = {}
====
